---- MODULE Spec2Model ----
(***************************************************************************)
(* Model of the Reachy Mini dance demo (examples/dance_demo.py) and of the *)
(* library pieces it uses (dance_move.py, collection/dance.py).            *)
(*                                                                         *)
(* Units.  Wall-clock time is counted in seconds, tempo in beats per       *)
(* minute, and every beat counter in 1/60 of a beat, so that                *)
(*   beats_this_frame = dt * (bpm / 60.0)   is   dt * bpm   exactly.       *)
(* The amplitude scale and the per-step "amplitude" modifier are counted   *)
(* in hundredths (1.0 is 100, the floor 0.1 is 10, a +/- key is 10).        *)
(* subcycles_per_beat is counted in thousandths (0.5 is 500).  Angles are  *)
(* in degrees and lengths in millimetres.  Arithmetic is exact: the        *)
(* rounding of binary floating point is not modelled.                      *)
(*                                                                         *)
(* The motion primitives of rhythmic_motion.py are modelled as operators   *)
(* and examined one call at a time (variable `motion`).                    *)
(***************************************************************************)
EXTENDS Integers, Sequences, FiniteSets, TLC

VARIABLES
    config,      \* Config handed to main(), fixed during a run
    file,        \* the choreography file found at config.choreography_path
    lock,        \* SharedState.lock: "free", or the thread holding it
    shared,      \* SharedState: running and the five pending edit fields
    stop_event,  \* threading.Event shared by main and the keyboard thread
    pc,          \* position of main() in its code
    loc,         \* locals of main()
    choreography,\* main's `choreography` (list of steps) once loaded
    robot,       \* what the ReachyMini actuation interface has received
    kbd,         \* pynput listener thread: position in on_press and its key
    waiter,      \* keyboard_listener_thread: position in its wait loop
    registry,    \* the AVAILABLE_MOVES dictionary object of the process
    library,     \* result of dance_move.Choreography(file), when constructed
    motion,      \* one call of a function of rhythmic_motion.py
    hist         \* history of posts and drains, read only by the properties

vars == <<config, file, lock, shared, stop_event, pc, loc, choreography,
          robot, kbd, waiter, registry, library, motion, hist>>

(***************************************************************************)
(* Bounds of the model.                                                    *)
(***************************************************************************)
MaxPresses == 2     \* key events delivered to on_press in one run
MaxDt == 1          \* longest time, in seconds, between two loop ticks
MaxBeats == 4       \* Interactive mode is followed up to this many beats
MaxSteps == 2       \* longest sequence of the files drawn for loading
MaxEdits == 2       \* presses of one kind of key behind one drained delta
MaxOffsets == 3     \* longest list handed to combine_offsets
MaxTicks == 12      \* latest beat-time of a primitive, in quarter beats

(***************************************************************************)
(* Program constants.                                                      *)
(***************************************************************************)
BeatsPerMinuteDivisor == 60    \* bpm / 60.0
MinBpm == 20                   \* max(20.0, ...)
MinAmplitudeScale == 10        \* max(0.1, ...), in hundredths
DefaultBpm == 120              \* Config.bpm, in beats per minute
DefaultAmplitudeScale == 100   \* Config.amplitude_scale = 1.0, in hundredths
DefaultSubcycles == 1000       \* params.get("subcycles_per_beat", 1.0)
DefaultStepAmplitude == 100    \* current_step.get("amplitude", 1.0)
BpmKeyStep == 5                \* adjust_bpm(5.0) / adjust_bpm(-5.0)
AmplitudeKeyStep == 10         \* adjust_amplitude(0.1) / (-0.1), in hundredths

Unclamped(a, b) == b
Max(a, b) == IF a >= b THEN a ELSE b

(***************************************************************************)
(* collection/dance.py: AVAILABLE_MOVES.  Four of the twenty entries, in   *)
(* the order of the dictionary: one plain oscillation, one with            *)
(* subcycles_per_beat = 0.5, one that has a "waveform" parameter and one   *)
(* that has no subcycles_per_beat at all.                                  *)
(***************************************************************************)
DEFAULT_ANTENNA_PARAMS ==
    [antenna_move_name |-> "wiggle", antenna_amplitude_rad |-> 45]

AVAILABLE_MOVES ==
    [simple_nod |->
        [fn |-> "move_simple_nod",
         params |-> [amplitude_rad |-> 20, subcycles_per_beat |-> 1000,
                     antenna_move_name |-> "wiggle",
                     antenna_amplitude_rad |-> 45],
         metadata |-> [default_duration_beats |-> 4]],
     head_tilt_roll |->
        [fn |-> "move_head_tilt_roll",
         params |-> [amplitude_rad |-> 15, subcycles_per_beat |-> 500,
                     antenna_move_name |-> "wiggle",
                     antenna_amplitude_rad |-> 45],
         metadata |-> [default_duration_beats |-> 4]],
     headbanger_combo |->
        [fn |-> "move_headbanger_combo",
         params |-> [pitch_amplitude_rad |-> 30, z_amplitude_m |-> 15,
                     subcycles_per_beat |-> 1000, waveform |-> "sin",
                     antenna_move_name |-> "both",
                     antenna_amplitude_rad |-> 40],
         metadata |-> [default_duration_beats |-> 4]],
     polyrhythm_combo |->
        [fn |-> "move_polyrhythm_combo",
         params |-> [sway_amplitude_m |-> 20, nod_amplitude_rad |-> 10,
                     antenna_amplitude_rad |-> 45,
                     antenna_move_name |-> "wiggle"],
         metadata |-> [default_duration_beats |-> 6]]]

\* list(AVAILABLE_MOVES.keys()): the keys in insertion order
move_names ==
    <<"simple_nod", "head_tilt_roll", "headbanger_combo", "polyrhythm_combo">>

waveforms == <<"sin", "cos", "triangle", "square", "sawtooth">>

\* `name in AVAILABLE_MOVES`
IsRegistered(name) == name \in DOMAIN registry

\* dict.get(key, default)
Get(d, key, default) == IF key \in DOMAIN d THEN d[key] ELSE default

\* move_names.index(config.start_move), 0-based; ValueError gives 0
StartIndex(name) ==
    IF \E i \in 1..Len(move_names) : move_names[i] = name
    THEN (CHOOSE i \in 1..Len(move_names) : move_names[i] = name) - 1
    ELSE 0

\* dict.update(other) / {**d, **other}
Update(d, other) ==
    [k \in DOMAIN d \cup DOMAIN other |->
        IF k \in DOMAIN other THEN other[k] ELSE d[k]]

\* a dict without some keys (dict.pop on a copy)
Without(d, keys) == [k \in DOMAIN d \ keys |-> d[k]]

(***************************************************************************)
(* Choreography files.  A file is what open() and json.load() make of it:  *)
(* it exists or not, its text is a JSON object, another JSON value or not  *)
(* JSON, and an object has or has not a "sequence" (a list or another      *)
(* value) and a "bpm".  An item of the list is a JSON object, given by its *)
(* fields, or another JSON value.                                          *)
(***************************************************************************)
Step(fields) == [is_object |-> TRUE, fields |-> fields]
ScalarItem == [is_object |-> FALSE, fields |-> [k \in {} |-> 0]]

File(text, seq_kind, items, has_bpm) ==
    [exists |-> TRUE, text |-> text, seq_kind |-> seq_kind, items |-> items,
     has_bpm |-> has_bpm, bpm |-> IF has_bpm THEN 100 ELSE 0]

NoFile ==
    [exists |-> FALSE, text |-> "garbage", seq_kind |-> "absent",
     items |-> <<>>, has_bpm |-> FALSE, bpm |-> 0]

\* the items the drawn files are made of
ItemSet ==
    { Step([move |-> "simple_nod", cycles |-> 2]),
      Step([move |-> "simple_nod", cycles |-> 1, amplitude_rad |-> 10]),
      Step([move |-> "simple_nod", cycles |-> 3, subcycles_per_beat |-> 2000]),
      Step([move |-> "head_tilt_roll", cycles |-> 4, amplitude |-> 50]),
      Step([move |-> "moonwalk", cycles |-> 1]),
      Step([cycles |-> 1]),
      ScalarItem }

SeqsUpTo(S, n) == UNION { [1..k -> S] : k \in 0..n }

\* files drawn when loading is what is examined
LoadFiles ==
    { NoFile,
      File("garbage", "absent", <<>>, FALSE),
      File("array", "absent", <<>>, FALSE),
      File("object", "absent", <<>>, TRUE),
      File("object", "scalar", <<>>, FALSE) }
    \cup { File("object", "list", items, b) :
             items \in SeqsUpTo(ItemSet, MaxSteps), b \in BOOLEAN }

\* files drawn when playback is what is examined
PlayFiles ==
    { File("object", "list",
           <<Step([move |-> "head_tilt_roll", cycles |-> 4, amplitude |-> 50]),
             Step([move |-> "polyrhythm_combo", cycles |-> 2]),
             Step([move |-> "simple_nod", cycles |-> 1])>>,
           TRUE),
      File("object", "list", <<>>, FALSE),
      File("object", "list", <<Step([move |-> "simple_nod"])>>, FALSE),
      File("object", "list",
           <<Step([move |-> "moonwalk", cycles |-> 1])>>, FALSE),
      NoFile }

(***************************************************************************)
(* dance_demo.py: load_choreography.  The result is None ("none"), the     *)
(* pair (sequence, bpm) ("ok") or an exception that leaves the function    *)
(* ("raise": step.get on an item that is no JSON object).                  *)
(***************************************************************************)
LoadResult(status, sequence, f) ==
    [status |-> status, sequence |-> sequence,
     has_bpm |-> status = "ok" /\ f.has_bpm,
     bpm |-> IF status = "ok" THEN f.bpm ELSE 0]

\* for step in sequence: if step.get("move") not in AVAILABLE_MOVES: return None
RECURSIVE ScanSteps(_, _)
ScanFirstStepOnly(items, i) ==
    IF i > Len(items) THEN "ok"
    ELSE IF ~items[i].is_object THEN "raise"
    ELSE IF "move" \notin DOMAIN items[i].fields THEN "none"
    ELSE IF ~IsRegistered(items[i].fields.move) THEN "none"
    ELSE "ok"
ScanSteps(items, i) ==
    IF i > Len(items) THEN "ok"
    ELSE IF ~items[i].is_object THEN "raise"
    ELSE IF "move" \notin DOMAIN items[i].fields THEN "none"
    ELSE IF ~IsRegistered(items[i].fields.move) THEN "none"
    ELSE ScanSteps(items, i + 1)

load_choreography(f) ==
    IF ~f.exists THEN LoadResult("none", <<>>, f)
    ELSE IF f.text = "garbage" THEN LoadResult("none", <<>>, f)
    ELSE IF f.text # "object" THEN LoadResult("none", <<>>, f)
    ELSE IF f.seq_kind # "list" THEN LoadResult("none", <<>>, f)
    ELSE LET s == ScanSteps(f.items, 1)
         IN  LoadResult(s, IF s = "ok" THEN f.items ELSE <<>>, f)

(***************************************************************************)
(* dance_demo.py: SharedState.                                             *)
(***************************************************************************)
TriggerFields == {"next_move", "prev_move", "next_waveform"}
DeltaFields == {"bpm_change", "amplitude_change"}
EditFields == TriggerFields \cup DeltaFields

\* SharedState.__init__
NewSharedState ==
    [running |-> TRUE, next_move |-> FALSE, prev_move |-> FALSE,
     next_waveform |-> FALSE, bpm_change |-> 0, amplitude_change |-> 0]

\* `with self.lock:` enters when the lock is free
CanAcquireAlways(l) == TRUE
CanAcquire(l) == l = "free"

\* the dict built by get_and_clear_changes, entry by entry
SnapshotTriggers(ch, s) ==
    [ch EXCEPT !.next_move = s.next_move, !.prev_move = s.prev_move,
               !.next_waveform = s.next_waveform]
SnapshotDeltasTempoOnly(ch, s) ==
    [ch EXCEPT !.bpm_change = s.bpm_change, !.amplitude_change = 0]
SnapshotDeltas(ch, s) ==
    [ch EXCEPT !.bpm_change = s.bpm_change,
               !.amplitude_change = s.amplitude_change]

\* the five edit fields of a SharedState
Snapshot(s) ==
    [next_move |-> s.next_move, prev_move |-> s.prev_move,
     next_waveform |-> s.next_waveform, bpm_change |-> s.bpm_change,
     amplitude_change |-> s.amplitude_change]

\* the two reset statements of get_and_clear_changes
ClearedKeepingTriggers(s) ==
    [s EXCEPT !.bpm_change = 0, !.amplitude_change = 0]
Cleared(s) ==
    [s EXCEPT !.next_move = FALSE, !.prev_move = FALSE,
              !.next_waveform = FALSE,
              !.bpm_change = 0, !.amplitude_change = 0]

NoChanges == Snapshot(NewSharedState)

(***************************************************************************)
(* dance_demo.py: on_press.  The SharedState method a key calls, the field *)
(* it writes and the amount it adds.                                       *)
(***************************************************************************)
\* the keys drawn (space is bound like "p"; other keys call nothing)
Keys == {"q", "p", "w", "+", "-", "right", "left", "up", "down"}

KeyMethod(key) ==
    CASE key = "p"     -> "toggle_pause"
      [] key = "w"     -> "trigger_next_waveform"
      [] key = "right" -> "trigger_next_move"
      [] key = "left"  -> "trigger_prev_move"
      [] key \in {"up", "down"} -> "adjust_bpm"
      [] key \in {"+", "-"} -> "adjust_amplitude"
      [] OTHER -> "none"

KeyField(key) ==
    CASE key = "w"     -> "next_waveform"
      [] key = "right" -> "next_move"
      [] key = "left"  -> "prev_move"
      [] key \in {"up", "down"} -> "bpm_change"
      [] key \in {"+", "-"} -> "amplitude_change"
      [] OTHER -> "running"

KeyAmount(key) ==
    CASE key = "up"   -> BpmKeyStep
      [] key = "down" -> 0 - BpmKeyStep
      [] key = "+"    -> AmplitudeKeyStep
      [] key = "-"    -> 0 - AmplitudeKeyStep
      [] OTHER -> 0

\* the body of the SharedState method the key calls, under the lock
Posted(s, key) ==
    CASE KeyMethod(key) = "toggle_pause" -> [s EXCEPT !.running = ~s.running]
      [] KeyMethod(key) = "trigger_next_waveform" ->
            [s EXCEPT !.next_waveform = TRUE]
      [] KeyMethod(key) = "trigger_next_move" -> [s EXCEPT !.next_move = TRUE]
      [] KeyMethod(key) = "trigger_prev_move" -> [s EXCEPT !.prev_move = TRUE]
      [] KeyMethod(key) = "adjust_bpm" ->
            [s EXCEPT !.bpm_change = s.bpm_change + KeyAmount(key)]
      [] KeyMethod(key) = "adjust_amplitude" ->
            [s EXCEPT !.amplitude_change = s.amplitude_change + KeyAmount(key)]
      [] OTHER -> s

(***************************************************************************)
(* dance_demo.py: main, the locals and the per-tick computations.          *)
(***************************************************************************)
\* the assignments of main before the loop
InitialLocals(cfg) ==
    [choreography_mode |-> FALSE,
     current_move_idx |-> StartIndex(cfg.start_move),
     current_waveform_idx |-> 0,
     t_beats |-> 0, sequence_beat_counter |-> 0,
     choreography_step_idx |-> 0, step_beat_counter |-> 0,
     bpm |-> cfg.bpm, amplitude_scale |-> cfg.amplitude_scale,
     dt |-> 0,            \* loop_start_time - last_loop_time
     elapsed |-> 0,       \* time.time() - last_loop_time
     changes |-> NoChanges,
     target_beats |-> 0,
     error |-> "none"]    \* exception that left the loop, if any

\* the edits of one tick: tempo, amplitude and waveform
TempoEditsClampingTempoOnly(l, ch) ==
    [l EXCEPT
        !.bpm = IF ch.bpm_change # 0
                THEN Max(MinBpm, l.bpm + ch.bpm_change) ELSE l.bpm,
        !.amplitude_scale = l.amplitude_scale + ch.amplitude_change,
        !.current_waveform_idx =
                IF ch.next_waveform
                THEN (l.current_waveform_idx + 1) % Len(waveforms)
                ELSE l.current_waveform_idx]
TempoEdits(l, ch) ==
    [l EXCEPT
        !.bpm = IF ch.bpm_change # 0
                THEN Max(MinBpm, l.bpm + ch.bpm_change) ELSE l.bpm,
        !.amplitude_scale =
                IF ch.amplitude_change # 0
                THEN Max(MinAmplitudeScale,
                         l.amplitude_scale + ch.amplitude_change)
                ELSE l.amplitude_scale,
        !.current_waveform_idx =
                IF ch.next_waveform
                THEN (l.current_waveform_idx + 1) % Len(waveforms)
                ELSE l.current_waveform_idx]

\* index after the navigation edits of one tick, over a list of n entries
NavigatedNoWrap(idx, ch, n) ==
    LET i1 == IF ch.next_move THEN idx + 1 ELSE idx
    IN  IF ch.prev_move THEN i1 - 1 ELSE i1
Navigated(idx, ch, n) ==
    LET i1 == IF ch.next_move THEN (idx + 1) % n ELSE idx
    IN  IF ch.prev_move THEN (i1 - 1 + n) % n ELSE i1

\* counter after the navigation edits of one tick
CounterAfterNavigation(counter, ch) ==
    IF ch.next_move \/ ch.prev_move THEN 0 ELSE counter

\* the navigation edits of one tick
NavigationEdits(l, ch, chor) ==
    IF l.choreography_mode
    THEN IF (ch.next_move \/ ch.prev_move) /\ Len(chor) = 0
         THEN [l EXCEPT !.error = "ZeroDivisionError"]
         ELSE [l EXCEPT
                 !.choreography_step_idx =
                     IF ch.next_move \/ ch.prev_move
                     THEN Navigated(l.choreography_step_idx, ch, Len(chor))
                     ELSE l.choreography_step_idx,
                 !.step_beat_counter =
                     CounterAfterNavigation(l.step_beat_counter, ch)]
    ELSE [l EXCEPT
            !.current_move_idx =
                Navigated(l.current_move_idx, ch, Len(move_names)),
            !.sequence_beat_counter =
                CounterAfterNavigation(l.sequence_beat_counter, ch)]

ApplyEdits(l, ch, chor) == NavigationEdits(TempoEdits(l, ch), ch, chor)

\* beats_this_frame = dt * (bpm / 60.0), in 1/60 of a beat
BeatsAtStartingTempo(l) == (l.dt * DefaultBpm * 60) \div BeatsPerMinuteDivisor
BeatsThisFrame(l) == (l.dt * l.bpm * 60) \div BeatsPerMinuteDivisor

\* target_beats of a step, in 1/60 of a beat
TargetBeatsIgnoringSubcycles(target_cycles, subcycles_per_beat) ==
    target_cycles * 60
TargetBeats(target_cycles, subcycles_per_beat) ==
    IF subcycles_per_beat > 0
    THEN (target_cycles * 60 * 1000) \div subcycles_per_beat
    ELSE target_cycles * 60

\* the condition of the automatic step advance
AdvanceLate(counter, target) == counter > target
AdvanceDue(counter, target) == counter >= target

\* the step logic of an unpaused tick in Choreography mode; `sel` is what the
\* evaluation below receives
ChoreographyLogic(l, chor) ==
    IF l.choreography_step_idx >= Len(chor)
    THEN [l |-> [l EXCEPT !.error = "IndexError"], ok |-> FALSE,
          move_name |-> "", modifier |-> 0, t_motion |-> 0]
    ELSE
    LET current_step == chor[l.choreography_step_idx + 1].fields
        move_name == current_step.move
        params == registry[move_name].params
    IN  IF "cycles" \notin DOMAIN current_step
        THEN [l |-> [l EXCEPT !.error = "KeyError"], ok |-> FALSE,
              move_name |-> "", modifier |-> 0, t_motion |-> 0]
        ELSE
        LET target == TargetBeats(current_step.cycles,
                         Get(params, "subcycles_per_beat", DefaultSubcycles))
            counter == l.step_beat_counter + BeatsThisFrame(l)
            due == AdvanceDue(counter, target)
            l2 == [l EXCEPT
                     !.target_beats = target,
                     !.step_beat_counter = IF due THEN 0 ELSE counter,
                     !.choreography_step_idx =
                         IF due THEN (l.choreography_step_idx + 1) % Len(chor)
                         ELSE l.choreography_step_idx]
        IN  [l |-> l2, ok |-> TRUE, move_name |-> move_name,
             modifier |-> Get(current_step, "amplitude", DefaultStepAmplitude),
             t_motion |-> l2.step_beat_counter]

\* the step logic of an unpaused tick in Interactive mode
InteractiveLogic(l, cfg) ==
    LET counter == l.sequence_beat_counter + BeatsThisFrame(l)
        due == counter >= cfg.beats_per_sequence * 60
        l2 == [l EXCEPT
                 !.sequence_beat_counter = IF due THEN 0 ELSE counter,
                 !.current_move_idx =
                     IF due THEN (l.current_move_idx + 1) % Len(move_names)
                     ELSE l.current_move_idx,
                 !.t_beats = l.t_beats + BeatsThisFrame(l)]
    IN  [l |-> l2, ok |-> TRUE,
         move_name |-> move_names[l2.current_move_idx + 1],
         modifier |-> DefaultStepAmplitude, t_motion |-> l2.t_beats]

\* `"amplitude" in key or "_amp" in key`, over the keys of the registry
AmplitudeKeys ==
    {"amplitude_rad", "antenna_amplitude_rad", "pitch_amplitude_rad",
     "z_amplitude_m", "sway_amplitude_m", "nod_amplitude_rad"}

\* current_params: the copy of the defaults, the waveform set and the
\* amplitudes multiplied by amplitude_scale * step_amplitude_modifier
\* (a scaled value is in 1/10000 of the unit of its default)
CurrentParamsExactKey(base_params, waveform, final_amplitude_scale) ==
    [k \in DOMAIN base_params |->
        IF k = "waveform" THEN waveform
        ELSE IF k = "amplitude_rad" THEN base_params[k] * final_amplitude_scale
        ELSE base_params[k]]
CurrentParams(base_params, waveform, final_amplitude_scale) ==
    [k \in DOMAIN base_params |->
        IF k = "waveform" THEN waveform
        ELSE IF k \in AmplitudeKeys THEN base_params[k] * final_amplitude_scale
        ELSE base_params[k]]

(***************************************************************************)
(* The value move_fn(t_motion, **current_params) is kept as the call that  *)
(* produces it; ZeroOffsets stands for offsets that are zero because no    *)
(* move function was called.  A pose command is the neutral pose of the    *)
(* configuration plus such offsets.                                        *)
(***************************************************************************)
ZeroOffsets == [fn |-> "zeros", t |-> 0, params |-> [k \in {} |-> 0]]

MoveCall(move_name, t_motion, waveform, final_amplitude_scale) ==
    [fn |-> registry[move_name].fn, t |-> t_motion,
     params |-> CurrentParams(registry[move_name].params, waveform,
                              final_amplitude_scale)]

\* the arguments of mini.set_target
PoseCommand(cfg, offsets) ==
    [sent |-> TRUE, neutral_pos |-> cfg.neutral_pos,
     neutral_eul |-> cfg.neutral_eul, offsets |-> offsets]

NoCommand ==
    [sent |-> FALSE, neutral_pos |-> <<0, 0, 0>>, neutral_eul |-> <<0, 0, 0>>,
     offsets |-> ZeroOffsets]

\* the pose command of a tick that found playback paused
PausedCommandEvaluating(cfg, l) ==
    PoseCommand(cfg, MoveCall(move_names[l.current_move_idx + 1], l.t_beats,
        waveforms[l.current_waveform_idx + 1],
        l.amplitude_scale * DefaultStepAmplitude))
PausedCommand(cfg, l) == PoseCommand(cfg, ZeroOffsets)

\* the pose command of an unpaused tick, from the result of its step logic
MoveCommand(cfg, r) ==
    PoseCommand(cfg,
        MoveCall(r.move_name, r.t_motion,
                 waveforms[r.l.current_waveform_idx + 1],
                 r.l.amplitude_scale * r.modifier))

(***************************************************************************)
(* History kept for the properties: how many posts each edit field holds   *)
(* since its last reset, what the posted amounts add up to, how many posts *)
(* the snapshot being taken holds, the totals posted and handed to ticks,  *)
(* the parity of the pause toggles, whether the loop test was reached and  *)
(* what shared_state.running was when the last tick read it, the wall-clock *)
(* time since the start of the last tick (since_tick), how many paused      *)
(* ticks in a row have just run (paused_run, counted up to 2) and how many  *)
(* had run before the last unpaused tick (paused_before), and per delta     *)
(* field the sum of the amounts posted (sum_posted) and the sum of the      *)
(* snapshot values the drains returned (sum_handed).  No action of the      *)
(* program reads it.                                                        *)
(***************************************************************************)
ZeroCounts == [f \in EditFields |-> 0]

NewHistory ==
    [posted |-> 0, taken |-> 0, posts |-> ZeroCounts,
     owed |-> [f \in DeltaFields |-> 0], in_snap |-> ZeroCounts,
     toggles |-> 0, entered |-> FALSE, tick_running |-> TRUE,
     since_tick |-> 0, paused_run |-> 0, paused_before |-> 0,
     sum_posted |-> [f \in DeltaFields |-> 0],
     sum_handed |-> [f \in DeltaFields |-> 0]]

SumCounts(c) ==
    c["next_move"] + c["prev_move"] + c["next_waveform"]
    + c["bpm_change"] + c["amplitude_change"]

HistoryAfterPost(h, key) ==
    IF KeyMethod(key) = "toggle_pause"
    THEN [h EXCEPT !.toggles = (h.toggles + 1) % 2]
    ELSE LET f == KeyField(key)
         IN  [h EXCEPT
                !.posted = h.posted + 1,
                !.posts[f] = h.posts[f] + 1,
                !.owed = [g \in DeltaFields |->
                            IF g = f THEN h.owed[g] + KeyAmount(key)
                            ELSE h.owed[g]],
                !.sum_posted = [g \in DeltaFields |->
                            IF g = f THEN h.sum_posted[g] + KeyAmount(key)
                            ELSE h.sum_posted[g]]]

(***************************************************************************)
(* dance_move.py: the Choreography object of the library and the move      *)
(* functions its moves call.                                               *)
(***************************************************************************)
\* no Choreography object yet; `evaluated` is the index of the move of the
\* choreography that was evaluated (0: none) and `call` what it called
NoCall == [status |-> "none", fn |-> "", params |-> [k \in {} |-> 0]]

NewLibrary ==
    [status |-> "none", bpm |-> 0, moves |-> <<>>, cycles |-> <<>>,
     evaluated |-> 0, call |-> NoCall]

\* the keyword parameters of the move functions (collection/dance.py)
Signature(fn) ==
    CASE fn \in {"move_simple_nod", "move_head_tilt_roll"} ->
            {"amplitude_rad", "antenna_amplitude_rad", "subcycles_per_beat",
             "antenna_move_name", "phase_offset", "waveform"}
      [] fn = "move_headbanger_combo" ->
            {"pitch_amplitude_rad", "z_amplitude_m", "antenna_amplitude_rad",
             "subcycles_per_beat", "antenna_move_name", "phase_offset",
             "waveform"}
      [] fn = "move_polyrhythm_combo" ->
            {"sway_amplitude_m", "nod_amplitude_rad", "antenna_amplitude_rad",
             "antenna_move_name"}
      [] OTHER -> {}

(***************************************************************************)
(* Initial states: main(config) is about to run.                           *)
(***************************************************************************)
\* the configurations drawn; the last one is `--bpm -60 --no-keyboard`
\* (argparse takes any float for --bpm and main does not clamp it)
Configs(paths) ==
    [choreography_path : paths,
     disable_keyboard : BOOLEAN,
     bpm : {DefaultBpm},
     amplitude_scale : {DefaultAmplitudeScale},
     beats_per_sequence : {4},
     start_move : {"simple_nod"},
     neutral_pos : {<<0, 0, 0>>},
     neutral_eul : {<<0, 0, 0>>}]
    \cup
    [choreography_path : {""},
     disable_keyboard : {TRUE},
     bpm : {0 - 60},
     amplitude_scale : {DefaultAmplitudeScale},
     beats_per_sequence : {4},
     start_move : {"simple_nod"},
     neutral_pos : {<<0, 0, 0>>},
     neutral_eul : {<<0, 0, 0>>}]

\* no function of rhythmic_motion.py is being examined
NoMotion == [fn |-> "none"]

ProgramInit(files) ==
    /\ config \in Configs({"", "choreo.json"})
    /\ file \in IF config.choreography_path = "" THEN {NoFile} ELSE files
    /\ lock = "free"
    /\ shared = NewSharedState
    /\ stop_event = FALSE
    /\ pc = "load"
    /\ loc = InitialLocals(config)
    /\ choreography = <<>>
    /\ robot = [calls |-> <<>>, target |-> NoCommand]
    /\ kbd = [pc |-> "off", key |-> "", presses |-> 0, alive |-> FALSE]
    /\ waiter = "off"
    /\ registry = AVAILABLE_MOVES
    /\ library = NewLibrary
    /\ hist = NewHistory

InitWith(files) == ProgramInit(files) /\ motion = NoMotion

Init == InitWith(PlayFiles)

(***************************************************************************)
(* main: loading, start of the keyboard thread, wake_up.                   *)
(***************************************************************************)
\* lines 223-228: `if result: ... else: return`, or the exception leaves main
AfterLoadGoesOn(status) == IF status = "raise" THEN "raised" ELSE "spawn"
AfterLoad(status) ==
    CASE status = "ok" -> "spawn"
      [] status = "none" -> "returned"
      [] OTHER -> "raised"

\* lines 217-228
MainLoad ==
    /\ pc = "load"
    /\ IF config.choreography_path = ""
       THEN /\ pc' = "spawn"
            /\ UNCHANGED <<choreography, loc>>
       ELSE LET result == load_choreography(file)
            IN  /\ pc' = AfterLoad(result.status)
                /\ choreography' = result.sequence
                /\ loc' = [loc EXCEPT
                             !.choreography_mode = result.status = "ok",
                             !.error = IF result.status = "raise"
                                       THEN "AttributeError" ELSE "none"]
    /\ UNCHANGED <<motion, config, file, lock, shared, stop_event, robot, kbd, waiter,
                   registry, library, hist>>

\* lines 230-253
MainSpawn ==
    /\ pc = "spawn"
    /\ pc' = "wake"
    /\ waiter' = IF config.disable_keyboard THEN waiter ELSE "start"
    /\ loc' = [InitialLocals(config) EXCEPT
                 !.choreography_mode = loc.choreography_mode]
    /\ UNCHANGED <<motion, config, file, lock, shared, stop_event, choreography, robot,
                   kbd, registry, library, hist>>

\* lines 255-271: inside the try block, up to last_loop_time = time.time()
MainWake ==
    /\ pc = "wake"
    /\ pc' = "while"
    /\ robot' = [robot EXCEPT !.calls = Append(@, "wake_up")]
    /\ loc' = [loc EXCEPT !.elapsed = 0]
    /\ UNCHANGED <<motion, config, file, lock, shared, stop_event, choreography, kbd,
                   waiter, registry, library, hist>>

(***************************************************************************)
(* main: the control loop.  A tick is: the loop test and dt; the drain     *)
(* get_and_clear_changes (acquire, read, reset, release); the edits; the   *)
(* read of shared_state.running with the branch it selects, ending in the  *)
(* sleep.  Steps that touch only locals are joined to the step before.     *)
(***************************************************************************)
\* `while not stop_event.is_set()`
LoopGoesOnWhenPaused(stopped, s) == ~stopped \/ ~s.running
LoopGoesOn(stopped, s) == ~stopped

\* the robot's call log; consecutive set_target calls are kept as one
Called(calls, c) ==
    IF c = "set_target" /\ Len(calls) > 0 /\ calls[Len(calls)] = "set_target"
    THEN calls ELSE Append(calls, c)

\* lines 273-276
LoopTest ==
    /\ pc = "while"
    /\ IF LoopGoesOn(stop_event, shared)
       THEN /\ loc.t_beats < MaxBeats * 60
            /\ loc.t_beats > 0 - MaxBeats * 60
            /\ pc' = "lock"
            /\ loc' = [loc EXCEPT !.dt = loc.elapsed, !.elapsed = 0]
       ELSE /\ pc' = "finally"
            /\ loc' = loc
    /\ hist' = [hist EXCEPT !.entered = TRUE]
    /\ UNCHANGED <<motion, config, file, lock, shared, stop_event, choreography, robot,
                   kbd, waiter, registry, library>>

\* line 108, entering `with self.lock`
DrainAcquire ==
    /\ pc = "lock"
    /\ CanAcquire(lock)
    /\ lock' = "main"
    /\ pc' = "read"
    /\ UNCHANGED <<motion, config, file, shared, stop_event, loc, choreography, robot,
                   kbd, waiter, registry, library, hist>>

\* lines 109-112: the three triggers are read
DrainReadTriggers ==
    /\ pc = "read"
    /\ loc' = [loc EXCEPT !.changes = SnapshotTriggers(loc.changes, shared)]
    /\ hist' = [hist EXCEPT
                  !.in_snap = [f \in EditFields |->
                     IF f \in TriggerFields THEN hist.posts[f] ELSE 0]]
    /\ pc' = "read_deltas"
    /\ UNCHANGED <<motion, config, file, lock, shared, stop_event, choreography, robot,
                   kbd, waiter, registry, library>>

\* lines 113-115: the two deltas are read
DrainReadDeltas ==
    /\ pc = "read_deltas"
    /\ loc' = [loc EXCEPT !.changes = SnapshotDeltas(loc.changes, shared)]
    /\ hist' = [hist EXCEPT
                  !.in_snap = [f \in EditFields |->
                     IF f \in DeltaFields THEN hist.posts[f]
                     ELSE hist.in_snap[f]]]
    /\ pc' = "reset"
    /\ UNCHANGED <<motion, config, file, lock, shared, stop_event, choreography, robot,
                   kbd, waiter, registry, library>>

\* lines 116-117
DrainReset ==
    /\ pc = "reset"
    /\ shared' = Cleared(shared)
    /\ hist' = [hist EXCEPT
                  !.posts = [f \in EditFields |->
                               IF shared'[f] = NewSharedState[f] THEN 0
                               ELSE hist.posts[f]],
                  !.owed = [f \in DeltaFields |-> shared'[f]],
                  !.sum_handed = [f \in DeltaFields |->
                                    hist.sum_handed[f] + loc.changes[f]]]
    /\ pc' = "ret"
    /\ UNCHANGED <<motion, config, file, lock, stop_event, loc, choreography, robot,
                   kbd, waiter, registry, library>>

\* line 118 (the lock is released) and lines 279-307
DrainReturn ==
    /\ pc = "ret"
    /\ lock' = "free"
    /\ LET l == ApplyEdits(loc, loc.changes, choreography)
       IN  /\ loc' = [l EXCEPT !.changes = NoChanges]
           /\ pc' = IF l.error = "none" THEN "running?" ELSE "finally"
    /\ hist' = [hist EXCEPT !.taken = hist.taken + SumCounts(hist.in_snap),
                            !.in_snap = ZeroCounts]
    /\ UNCHANGED <<motion, config, file, shared, stop_event, choreography, robot, kbd,
                   waiter, registry, library>>

\* `if not shared_state.running`
SeenPaused(s) == ~s.running

\* lines 309-317: the tick of a paused playback
PausedTickKeepingClock ==
    /\ pc = "running?"
    /\ SeenPaused(shared)
    /\ robot' = [robot EXCEPT !.calls = Called(@, "set_target"),
                              !.target = PausedCommand(config, loc)]
    /\ \E d \in 1..MaxDt :
          /\ loc' = [loc EXCEPT !.elapsed = loc.dt + d]
          /\ hist' = [hist EXCEPT !.tick_running = shared.running,
                                  !.since_tick = d,
                                  !.paused_run = IF @ < 2 THEN @ + 1 ELSE @]
    /\ pc' = "while"
    /\ UNCHANGED <<motion, config, file, lock, shared, stop_event, choreography, kbd,
                   waiter, registry, library>>
PausedTick ==
    /\ pc = "running?"
    /\ SeenPaused(shared)
    /\ robot' = [robot EXCEPT !.calls = Called(@, "set_target"),
                              !.target = PausedCommand(config, loc)]
    /\ \E d \in 1..MaxDt :
          /\ loc' = [loc EXCEPT !.elapsed = d]
          /\ hist' = [hist EXCEPT !.tick_running = shared.running,
                                  !.since_tick = d,
                                  !.paused_run = IF @ < 2 THEN @ + 1 ELSE @]
    /\ pc' = "while"
    /\ UNCHANGED <<motion, config, file, lock, shared, stop_event, choreography, kbd,
                   waiter, registry, library>>

\* lines 309, 319-414: the tick of a running playback
RunningTick ==
    /\ pc = "running?"
    /\ ~SeenPaused(shared)
    /\ LET r == IF loc.choreography_mode
                THEN ChoreographyLogic(loc, choreography)
                ELSE InteractiveLogic(loc, config)
       IN  IF r.ok
           THEN /\ robot' = [robot EXCEPT
                               !.calls = Called(@, "set_target"),
                               !.target = MoveCommand(config, r)]
                /\ \E d \in 1..MaxDt :
                      /\ loc' = [r.l EXCEPT !.elapsed = d]
                      /\ hist' = [hist EXCEPT
                                    !.tick_running = shared.running,
                                    !.since_tick = d,
                                    !.paused_before = hist.paused_run,
                                    !.paused_run = 0]
                /\ pc' = "while"
           ELSE /\ robot' = robot
                /\ loc' = r.l
                /\ pc' = "finally"
                /\ hist' = [hist EXCEPT !.tick_running = shared.running]
    /\ UNCHANGED <<motion, config, file, lock, shared, stop_event, choreography, kbd,
                   waiter, registry, library>>

\* lines 418-419: stop_event.set()
Finally ==
    /\ pc = "finally"
    /\ stop_event' = TRUE
    /\ pc' = "sleep"
    /\ UNCHANGED <<motion, config, file, lock, shared, loc, choreography, robot, kbd,
                   waiter, registry, library, hist>>

\* lines 420-423: mini.goto_sleep(), after which main is left
GotoSleepSkipped ==
    /\ pc = "sleep"
    /\ pc' = "done"
    /\ UNCHANGED <<motion, config, file, lock, shared, stop_event, loc, choreography,
                   kbd, waiter, registry, library, hist, robot>>
GotoSleep ==
    /\ pc = "sleep"
    /\ robot' = [robot EXCEPT !.calls = Called(@, "goto_sleep")]
    /\ pc' = "done"
    /\ UNCHANGED <<motion, config, file, lock, shared, stop_event, loc, choreography,
                   kbd, waiter, registry, library, hist>>

\* Ctrl-C: KeyboardInterrupt in the main thread.  Inside the try block it
\* leads to the finally clause (a lock held by main is released by its
\* `with`); before the try block it leaves main.
InTryBeforeLoop == {"wake"}
InTry ==
    {"wake", "while", "lock", "read", "read_deltas", "reset", "ret",
     "running?"}

CtrlC ==
    /\ pc \notin {"finally", "sleep", "done", "returned", "raised"}
    /\ pc' = IF pc \in InTry THEN "finally" ELSE "raised"
    /\ loc' = [loc EXCEPT !.error = "KeyboardInterrupt"]
    /\ lock' = IF lock = "main" THEN "free" ELSE lock
    /\ UNCHANGED <<motion, config, file, shared, stop_event, choreography, robot, kbd,
                   waiter, registry, library, hist>>

(***************************************************************************)
(* keyboard_listener_thread and the pynput listener it starts.             *)
(***************************************************************************)
\* The thread is a daemon: it runs as long as main has not left (the
\* interpreter exits when main returns or raises).
ProcessAlive == pc \notin {"done", "returned", "raised"}

\* lines 157-158
WaiterStart ==
    /\ ProcessAlive
    /\ waiter = "start"
    /\ waiter' = "wait"
    /\ kbd' = [kbd EXCEPT !.pc = "idle", !.alive = TRUE]
    /\ UNCHANGED <<motion, config, file, lock, shared, stop_event, pc, loc,
                   choreography, robot, registry, library, hist>>

\* lines 160-165: the wait loop sees the stop signal and stops the listener
WaiterStopKeepsListener ==
    /\ ProcessAlive
    /\ waiter = "wait"
    /\ stop_event
    /\ waiter' = "exited"
    /\ UNCHANGED <<motion, config, file, lock, shared, stop_event, pc, loc,
                   choreography, robot, registry, library, hist, kbd>>
WaiterStop ==
    /\ ProcessAlive
    /\ waiter = "wait"
    /\ stop_event
    /\ waiter' = "exited"
    /\ kbd' = [kbd EXCEPT !.alive = FALSE]
    /\ UNCHANGED <<motion, config, file, lock, shared, stop_event, pc, loc,
                   choreography, robot, registry, library, hist>>

\* lines 129-155: on_press up to the call of a SharedState method
KeyPress ==
    /\ ProcessAlive
    /\ kbd.pc = "idle"
    /\ kbd.alive
    /\ kbd.presses < MaxPresses
    /\ \E key \in Keys :
         IF stop_event
         THEN /\ kbd' = [kbd EXCEPT !.alive = FALSE,
                                    !.presses = kbd.presses + 1]
              /\ stop_event' = stop_event
         ELSE IF key = "q"
         THEN /\ kbd' = [kbd EXCEPT !.alive = FALSE,
                                    !.presses = kbd.presses + 1]
              /\ stop_event' = TRUE
         ELSE /\ kbd' = [kbd EXCEPT
                           !.pc = IF KeyMethod(key) = "none"
                                  THEN "idle" ELSE "lock",
                           !.key = IF KeyMethod(key) = "none" THEN "" ELSE key,
                           !.presses = kbd.presses + 1]
              /\ stop_event' = stop_event
    /\ UNCHANGED <<motion, config, file, lock, shared, pc, loc, choreography, robot,
                   waiter, registry, library, hist>>

\* `with self.lock:` of the SharedState method
PostAcquire ==
    /\ ProcessAlive
    /\ kbd.pc = "lock"
    /\ CanAcquire(lock)
    /\ lock' = "kbd"
    /\ kbd' = [kbd EXCEPT !.pc = "crit"]
    /\ UNCHANGED <<motion, config, file, shared, stop_event, pc, loc, choreography,
                   robot, waiter, registry, library, hist>>

\* the body of the SharedState method, the release of the lock and the
\* return of on_press
PostWrite ==
    /\ ProcessAlive
    /\ kbd.pc = "crit"
    /\ shared' = Posted(shared, kbd.key)
    /\ hist' = HistoryAfterPost(hist, kbd.key)
    /\ lock' = "free"
    /\ kbd' = [kbd EXCEPT !.pc = "idle", !.key = ""]
    /\ UNCHANGED <<motion, config, file, stop_event, pc, loc, choreography, robot,
                   waiter, registry, library>>

(***************************************************************************)
(* dance_move.py: Choreography.__init__ and the DanceMove objects it       *)
(* builds.  A DanceMove keeps the parameter dictionary of the registry     *)
(* itself (no copy), so it is given by its name and reads its parameters   *)
(* in `registry`.  The construction raises ("raise") or completes ("ok").  *)
(***************************************************************************)
DanceMoveDefaultBpm == 114

\* DanceMove.__init__(move_name, **params) on registry `reg`
DanceMoveInit(reg, move_name, params) ==
    IF move_name \notin DOMAIN reg
    THEN [status |-> "raise", registry |-> reg]
    ELSE [status |-> "ok",
          registry |-> [reg EXCEPT ![move_name].params = Update(@, params)]]

\* the loop of Choreography.__init__ from item i on
RECURSIVE BuildMoves(_, _, _)
BuildMoves(items, i, acc) ==
    IF i > Len(items) THEN acc
    ELSE IF ~items[i].is_object \/ "move" \notin DOMAIN items[i].fields
    THEN [acc EXCEPT !.status = "raise"]
    ELSE LET move == items[i].fields
             move_params == Without(move, {"move"})
             made == DanceMoveInit(acc.registry, move.move,
                                   Without(move_params, {"cycles"}))
         IN  IF made.status = "raise"
             THEN [acc EXCEPT !.status = "raise"]
             ELSE BuildMoves(items, i + 1,
                    [status |-> "ok", registry |-> made.registry,
                     moves |-> Append(acc.moves, move.move),
                     cycles |-> Append(acc.cycles,
                                       Get(move_params, "cycles", 1))])

\* lines 74-91
ChoreographyInit ==
    /\ library.status = "none"
    /\ config.choreography_path # ""
    /\ LET readable == file.exists /\ file.text = "object"
                        /\ file.seq_kind = "list"
           built == BuildMoves(file.items, 1,
                      [status |-> "ok", registry |-> registry,
                       moves |-> <<>>, cycles |-> <<>>])
       IN  IF readable
           THEN /\ registry' = built.registry
                /\ library' =
                     [library EXCEPT
                      !.status = built.status,
                      !.bpm = IF file.has_bpm THEN file.bpm
                              ELSE DanceMoveDefaultBpm,
                      !.moves = IF built.status = "ok" THEN built.moves
                                ELSE <<>>,
                      !.cycles = IF built.status = "ok" THEN built.cycles
                                 ELSE <<>>]
           ELSE /\ registry' = registry
                /\ library' = [library EXCEPT !.status = "raise"]
    /\ UNCHANGED <<motion, config, file, lock, shared, stop_event, pc, loc,
                   choreography, robot, kbd, waiter, hist>>

\* DanceMove.evaluate, lines 60-61: move_fn(t_beats, **self.move_params) of
\* move i of the choreography; self.move_params is the dict of the registry.
\* A keyword the function does not have makes the call raise TypeError.
MoveFnCall(fn, move_params) ==
    [status |-> IF DOMAIN move_params \subseteq Signature(fn)
                THEN "ok" ELSE "TypeError",
     fn |-> fn, params |-> move_params]

DanceMoveEvaluate ==
    /\ library.status = "ok"
    /\ library.evaluated = 0
    /\ \E i \in 1..Len(library.moves) :
          library' = [library EXCEPT
              !.evaluated = i,
              !.call = MoveFnCall(registry[library.moves[i]].fn,
                                  registry[library.moves[i]].params)]
    /\ UNCHANGED <<motion, config, file, lock, shared, stop_event, pc, loc,
                   choreography, robot, kbd, waiter, registry, hist>>

\* DanceMove.duration, lines 33-45: (1 / (default_bpm / 60)) * nb_beats, as
\* the fraction seconds_times_bpm / bpm of a second
DanceMoveDuration(move_name) ==
    [seconds_times_bpm |->
        60 * Get(registry[move_name].metadata, "default_duration_beats", 1),
     bpm |-> DanceMoveDefaultBpm]

\* Choreography.duration, lines 93-96: sum(move.duration for move in moves);
\* every term is a fraction over default_bpm
RECURSIVE SumDurations(_, _)
SumDurations(moves, i) ==
    IF i > Len(moves) THEN 0
    ELSE DanceMoveDuration(moves[i]).seconds_times_bpm
         + SumDurations(moves, i + 1)

ChoreographyDuration(lib) ==
    [seconds_times_bpm |-> SumDurations(lib.moves, 1),
     bpm |-> DanceMoveDefaultBpm]

Next ==
    \/ MainLoad \/ MainSpawn \/ MainWake
    \/ LoopTest \/ DrainAcquire \/ DrainReadTriggers \/ DrainReadDeltas
    \/ DrainReset \/ DrainReturn
    \/ PausedTick \/ RunningTick \/ Finally \/ GotoSleep \/ CtrlC
    \/ WaiterStart \/ WaiterStop \/ KeyPress \/ PostAcquire \/ PostWrite

Spec == Init /\ [][Next]_vars

\* The wait loop of the input task polls the stop signal every 0.1 s: while
\* the process lives, a wait iteration that can leave the loop is taken.
\* A choreography is played, and the files drawn are short: a one-step
\* choreography that plays for ever, and one whose step has no "cycles",
\* which ends the loop by a runtime error.
LiveFiles ==
    { File("object", "list",
           <<Step([move |-> "simple_nod", cycles |-> 1])>>, TRUE),
      File("object", "list", <<Step([move |-> "simple_nod"])>>, FALSE) }

InitLive == InitWith(LiveFiles) /\ config.choreography_path # ""

SpecLive == InitLive /\ [][Next]_vars /\ WF_vars(WaiterStop)

(***************************************************************************)
(* Loading alone, over every drawn file, by the demo's load_choreography   *)
(* and by the library's Choreography constructor.                          *)
(***************************************************************************)
InitLoad == InitWith(LoadFiles)

NextLoad == MainLoad \/ ChoreographyInit \/ DanceMoveEvaluate

SpecLoad == InitLoad /\ [][NextLoad]_vars

(***************************************************************************)
(* The edits of a tick in isolation: the first drain of a run has returned *)
(* a snapshot of up to MaxEdits presses of the tempo keys and of the       *)
(* amplitude keys, for starting values on both sides of the floors (the    *)
(* starting tempo and amplitude scale are whatever the Config holds).      *)
(***************************************************************************)
EditTempos == {10, 20, 25, 30, 120}
EditScales == {5, 10, 15, 25, 100}
Abs(x) == IF x < 0 THEN -x ELSE x

InitEdits ==
    /\ config \in [choreography_path : {""},
                   disable_keyboard : {FALSE},
                   bpm : EditTempos,
                   amplitude_scale : EditScales,
                   beats_per_sequence : {4},
                   start_move : {"simple_nod"},
                   neutral_pos : {<<0, 0, 0>>},
                   neutral_eul : {<<0, 0, 0>>}]
    /\ file = NoFile
    /\ lock = "main"
    /\ shared = NewSharedState
    /\ stop_event = FALSE
    /\ pc = "ret"
    /\ \E nb \in -MaxEdits..MaxEdits, na \in -MaxEdits..MaxEdits,
          w \in BOOLEAN :
          /\ loc = [InitialLocals(config) EXCEPT
                      !.changes = [NoChanges EXCEPT
                          !.bpm_change = nb * BpmKeyStep,
                          !.amplitude_change = na * AmplitudeKeyStep,
                          !.next_waveform = w]]
          /\ hist = [NewHistory EXCEPT
                      !.entered = TRUE,
                      !.posted = Abs(nb) + Abs(na) + (IF w THEN 1 ELSE 0),
                      !.in_snap = [ZeroCounts EXCEPT
                          !["bpm_change"] = Abs(nb),
                          !["amplitude_change"] = Abs(na),
                          !["next_waveform"] = IF w THEN 1 ELSE 0]]
    /\ choreography = <<>>
    /\ robot = [calls |-> <<"wake_up">>, target |-> NoCommand]
    /\ kbd = [pc |-> "idle", key |-> "", presses |-> MaxPresses,
              alive |-> TRUE]
    /\ waiter = "wait"
    /\ registry = AVAILABLE_MOVES
    /\ library = NewLibrary
    /\ motion = NoMotion

NextEdits == DrainReturn

SpecEdits == InitEdits /\ [][NextEdits]_vars

(***************************************************************************)
(* rhythmic_motion.py.  The other variables stay as main(config) finds     *)
(* them; `motion` holds the function called, its arguments and, once it    *)
(* has returned, its result.                                               *)
(***************************************************************************)
(* The whole program playing a one-step choreography, started near the     *)
(* floors: at the floors, just above them and below them (--bpm overrides  *)
(* the tempo of the file, and the Config values are used as they are).     *)
(***************************************************************************)
FloorStarts == {<<10, 5>>, <<20, 10>>, <<25, 20>>}

InitFloor ==
    /\ \E st \in FloorStarts :
          config = [choreography_path |-> "choreo.json",
                    disable_keyboard |-> FALSE,
                    bpm |-> st[1], amplitude_scale |-> st[2],
                    beats_per_sequence |-> 4, start_move |-> "simple_nod",
                    neutral_pos |-> <<0, 0, 0>>, neutral_eul |-> <<0, 0, 0>>]
    /\ file = File("object", "list",
                   <<Step([move |-> "simple_nod", cycles |-> 1])>>, TRUE)
    /\ lock = "free"
    /\ shared = NewSharedState
    /\ stop_event = FALSE
    /\ pc = "load"
    /\ loc = InitialLocals(config)
    /\ choreography = <<>>
    /\ robot = [calls |-> <<>>, target |-> NoCommand]
    /\ kbd = [pc |-> "off", key |-> "", presses |-> 0, alive |-> FALSE]
    /\ waiter = "off"
    /\ registry = AVAILABLE_MOVES
    /\ library = NewLibrary
    /\ hist = NewHistory
    /\ motion = NoMotion

SpecFloor == InitFloor /\ [][Next]_vars

(***************************************************************************)
program == <<config, file, lock, shared, stop_event, pc, loc, choreography,
             robot, kbd, waiter, registry, library, hist>>

ProgramAtRest ==
    /\ ProgramInit({NoFile})
    /\ config.choreography_path = ""
    /\ ~config.disable_keyboard

\* MoveOffsets(position_offset, orientation_offset, antennas_offset), in
\* millimetres and degrees
MoveOffsets(pos, ori, ant) ==
    [position_offset |-> pos, orientation_offset |-> ori,
     antennas_offset |-> ant]

\* np.zeros(n), and a + b on arrays of one shape
Zeros(n) == [i \in 1..n |-> 0]
VecAdd(a, b) == [i \in DOMAIN a |-> a[i] + b[i]]

\* sum(vs, start): start + vs[1] + vs[2] + ..., from the left
RECURSIVE SumFrom(_, _, _)
SumFrom(vs, i, acc) ==
    IF i > Len(vs) THEN acc ELSE SumFrom(vs, i + 1, VecAdd(acc, vs[i]))

\* lines 157-174
CombineLast(offsets_list) ==
    IF offsets_list = <<>>
    THEN MoveOffsets(Zeros(3), Zeros(3), Zeros(2))
    ELSE offsets_list[Len(offsets_list)]
combine_offsets(offsets_list) ==
    IF offsets_list = <<>>
    THEN MoveOffsets(Zeros(3), Zeros(3), Zeros(2))
    ELSE MoveOffsets(
           SumFrom([i \in 1..Len(offsets_list) |->
                       offsets_list[i].position_offset], 1, Zeros(3)),
           SumFrom([i \in 1..Len(offsets_list) |->
                       offsets_list[i].orientation_offset], 1, Zeros(3)),
           SumFrom([i \in 1..Len(offsets_list) |->
                       offsets_list[i].antennas_offset], 1, Zeros(2)))

\* the offsets the lists are drawn from
OffsetSet ==
    { MoveOffsets(<<0, 0, 0>>, <<0, 0, 0>>, <<0, 0>>),
      MoveOffsets(<<1, 0, -2>>, <<0, 3, 0>>, <<1, 1>>),
      MoveOffsets(<<0, 5, 2>>, <<-3, 0, 1>>, <<0, -1>>),
      MoveOffsets(<<-1, -5, 0>>, <<2, 2, 2>>, <<4, 0>>),
      MoveOffsets(<<7, 0, 0>>, <<0, 0, 0>>, <<-4, 9>>) }

InitCombine ==
    /\ ProgramAtRest
    /\ \E l \in SeqsUpTo(OffsetSet, MaxOffsets) :
          motion = [fn |-> "combine_offsets", status |-> "called",
                    args |-> l]

CombineOffsets ==
    /\ motion.fn = "combine_offsets"
    /\ motion.status = "called"
    /\ motion' = [fn |-> "combine_offsets", status |-> "returned",
                  args |-> motion.args,
                  result |-> combine_offsets(motion.args)]
    /\ UNCHANGED program

NextCombine == CombineOffsets

SpecCombine == InitCombine /\ [][NextCombine]_vars

(***************************************************************************)
(* transient_motion.  Beat-times, delay_beats, duration_in_beats and       *)
(* repeat_every are counted in quarter beats.  The value returned is kept  *)
(* as the fraction num / den (the easing is a cubic of a ratio).           *)
(***************************************************************************)
Fraction(num, den) == [num |-> num, den |-> den]

\* TransientParams(amplitude, duration_in_beats, delay_beats, repeat_every)
TransientParams(amplitude, duration_in_beats, delay_beats, repeat_every) ==
    [amplitude |-> amplitude, duration_in_beats |-> duration_in_beats,
     delay_beats |-> delay_beats, repeat_every |-> repeat_every]

\* lines 138-146; np.floor(x / y) of whole numbers, y > 0, is x \div y
StartTime(t_beats, params) ==
    IF params.repeat_every > 0
    THEN ((t_beats - params.delay_beats) \div params.repeat_every)
            * params.repeat_every + params.delay_beats
    ELSE params.delay_beats

\* lines 149-152: amplitude * t_norm * t_norm * (3 - 2 * t_norm) for
\* t_norm = n / d
Eased(amplitude, n, d) == Fraction(amplitude * n * n * (3 * d - 2 * n), d * d * d)

\* lines 124-154
TransientOneShot(t_beats, params) ==
    IF /\ params.delay_beats <= t_beats
       /\ t_beats < params.delay_beats + params.duration_in_beats
    THEN Eased(params.amplitude, t_beats - params.delay_beats,
               params.duration_in_beats)
    ELSE Fraction(0, 1)
transient_motion(t_beats, params) ==
    LET start_time == StartTime(t_beats, params)
    IN  IF /\ start_time <= t_beats
           /\ t_beats < start_time + params.duration_in_beats
        THEN Eased(params.amplitude, t_beats - start_time,
                   params.duration_in_beats)
        ELSE Fraction(0, 1)

\* the specs drawn: amplitudes of both signs, one-shot and repeating, with
\* the pulse shorter than, as long as and longer than the repeat interval
TransientSpecs ==
    { TransientParams(a, d, dl, r) :
        a \in {-3, 5}, d \in {0, 1, 2, 4}, dl \in {0, 1, 5}, r \in {0, 2, 4} }

InitTransient ==
    /\ ProgramAtRest
    /\ \E t \in 0..MaxTicks, p \in TransientSpecs :
          motion = [fn |-> "transient_motion", status |-> "called",
                    t_beats |-> t, params |-> p]

TransientMotion ==
    /\ motion.fn = "transient_motion"
    /\ motion.status = "called"
    /\ motion' = [fn |-> "transient_motion", status |-> "returned",
                  t_beats |-> motion.t_beats, params |-> motion.params,
                  result |-> transient_motion(motion.t_beats, motion.params)]
    /\ UNCHANGED program

NextTransient == TransientMotion

SpecTransient == InitTransient /\ [][NextTransient]_vars

(***************************************************************************)
(* oscillation_motion.  Beat-times are counted in quarter beats,           *)
(* subcycles_per_beat in thousandths, phase_offset and the phase in        *)
(* eighths of a cycle (phase = 2 * pi * k / 8), and the value of a         *)
(* waveform in thousandths.  On this grid np.sin takes the values          *)
(* 0, +-0.707 and +-1.                                                     *)
(***************************************************************************)
\* OscillationParams(amplitude, subcycles_per_beat, phase_offset, waveform)
OscillationParams(amplitude, subcycles_per_beat, phase_offset, waveform) ==
    [amplitude |-> amplitude, subcycles_per_beat |-> subcycles_per_beat,
     phase_offset |-> phase_offset, waveform |-> waveform]

\* line 107: phase = 2 * pi * (subcycles_per_beat * t_beats + phase_offset)
PhaseIgnoringRate(t_beats, params) == 2 * t_beats + params.phase_offset
Phase(t_beats, params) ==
    (params.subcycles_per_beat * t_beats * 2) \div 1000 + params.phase_offset

\* np.sin and np.cos at 2 * pi * k / 8
NpSin(k) == <<0, 707, 1000, 707, 0, -707, -1000, -707>>[(k % 8) + 1]
NpCos(k) == NpSin(k + 2)
\* np.sign
NpSign(x) == IF x > 0 THEN 1 ELSE IF x < 0 THEN -1 ELSE 0
\* (2 / np.pi) * np.arcsin(np.sin(phase))
TriangleOfSin(k) == <<0, 500, 1000, 500, 0, -500, -1000, -500>>[(k % 8) + 1]
\* 2 * ((phase / (2 * np.pi)) % 1) - 1
Sawtooth(k) == 2 * ((k % 8) * 125) - 1000

\* lines 91-120
OscillationDefaultingToSin(t_beats, params) ==
    [status |-> "ok",
     value |-> params.amplitude * NpSin(Phase(t_beats, params))]
oscillation_motion(t_beats, params) ==
    LET phase == Phase(t_beats, params)
    IN  CASE params.waveform = "sin" ->
                [status |-> "ok", value |-> params.amplitude * NpSin(phase)]
          [] params.waveform = "cos" ->
                [status |-> "ok", value |-> params.amplitude * NpCos(phase)]
          [] params.waveform = "square" ->
                [status |-> "ok",
                 value |-> params.amplitude * 1000 * NpSign(NpSin(phase))]
          [] params.waveform = "triangle" ->
                [status |-> "ok",
                 value |-> params.amplitude * TriangleOfSin(phase)]
          [] params.waveform = "sawtooth" ->
                [status |-> "ok", value |-> params.amplitude * Sawtooth(phase)]
          [] OTHER -> [status |-> "ValueError", value |-> 0]

\* the specs drawn: the five waveforms and an unsupported one, rates of 0,
\* 0.5, 1 and 2 subcycles per beat, four phase offsets
OscillationSpecs ==
    { OscillationParams(a, f, ph, w) :
        a \in {-2, 3}, f \in {0, 500, 1000, 2000}, ph \in {0, 1, 2, 4},
        w \in {"sin", "cos", "square", "triangle", "sawtooth", "zigzag"} }

InitOscillation ==
    /\ ProgramAtRest
    /\ \E t \in 0..MaxTicks, p \in OscillationSpecs :
          motion = [fn |-> "oscillation_motion", status |-> "called",
                    t_beats |-> t, params |-> p]

OscillationMotion ==
    /\ motion.fn = "oscillation_motion"
    /\ motion.status = "called"
    /\ motion' = [fn |-> "oscillation_motion", status |-> "returned",
                  t_beats |-> motion.t_beats, params |-> motion.params,
                  result |-> oscillation_motion(motion.t_beats, motion.params)]
    /\ UNCHANGED program

NextOscillation == OscillationMotion

SpecOscillation == InitOscillation /\ [][NextOscillation]_vars

(***************************************************************************)
(*                              PROPERTIES                                 *)
(***************************************************************************)
MainLeft == pc \in {"finally", "sleep", "done", "returned", "raised"}

Last(q) == q[Len(q)]

(***************************************************************************)
(* C1.  As stated: under any interleaving of posts and drains every posted *)
(* edit is observed by exactly one tick and none is lost, for any number   *)
(* of posts between two drains.  A tick observes a trigger as one edit,    *)
(* so the statement asks that a snapshot about to be handed to a tick      *)
(* holds no more posts of a trigger than the one edit the tick will see.   *)
(***************************************************************************)
C1_EveryPostSeenByOneTick ==
    pc = "ret" =>
        \A f \in TriggerFields :
            hist.in_snap[f] = IF loc.changes[f] THEN 1 ELSE 0

(***************************************************************************)
(* C1, amended.  Every post of adjust_bpm, adjust_amplitude and of the     *)
(* three triggers is contained in the snapshot of exactly one drain: the   *)
(* posts made are those handed to ticks plus those still pending, a        *)
(* trigger field is set exactly when posts of it are pending, a delta      *)
(* field is the sum of the pending amounts, and the snapshot shows a       *)
(* trigger exactly when it holds posts of it (any number of them: they     *)
(* coalesce into one observed edit).  toggle_pause is not drained: running *)
(* is flipped once per call.                                               *)
(***************************************************************************)
C1_EveryPostInOneSnapshot ==
    /\ \A f \in TriggerFields : shared[f] = (hist.posts[f] > 0)
    /\ \A f \in DeltaFields : shared[f] = hist.owed[f]
    /\ shared.running = (hist.toggles = 0)
    /\ ~MainLeft =>
          hist.posted = hist.taken + SumCounts(hist.posts)
                        + (IF pc = "ret" THEN SumCounts(hist.in_snap) ELSE 0)
    /\ pc = "ret" =>
          \A f \in TriggerFields : loc.changes[f] = (hist.in_snap[f] > 0)

\* two tempo posts made between two drains are both in the snapshot
C1_Witness ==
    /\ pc = "ret"
    /\ hist.in_snap["bpm_change"] = 2
    /\ loc.changes.bpm_change = 2 * BpmKeyStep

(***************************************************************************)
(* C2.  The drain reads and resets the pending edits in one atomic step:   *)
(* once the triggers are read they still equal the fields, once all is     *)
(* read the whole snapshot equals the fields (one instant for all five),   *)
(* the posts in it are exactly the posts written so far, and when the      *)
(* drain returns every trigger is False, every delta is 0 and no post was  *)
(* written in between.                                                     *)
(***************************************************************************)
C2_DrainIsAtomic ==
    /\ pc = "read_deltas" =>
          \A f \in TriggerFields : loc.changes[f] = shared[f]
    /\ pc = "reset" =>
          /\ loc.changes = Snapshot(shared)
          /\ hist.in_snap = hist.posts
    /\ pc = "ret" =>
          /\ Snapshot(shared) = NoChanges
          /\ hist.posts = ZeroCounts
          /\ hist.posted = hist.taken + SumCounts(hist.in_snap)

\* a drain returns a snapshot with an edit while another post waits for the lock
C2_Witness ==
    /\ pc = "ret"
    /\ loc.changes.next_waveform
    /\ kbd.pc = "lock"
    /\ lock = "main"

(***************************************************************************)
(* C3.  Every read and write of the state shared by the two tasks (the     *)
(* deltas, the triggers, the running flag) is made holding the lock: a     *)
(* thread about to read or write SharedState holds SharedState.lock.       *)
(***************************************************************************)
C3_EveryAccessHoldsLock ==
    /\ pc \in {"read", "read_deltas", "reset", "running?"} => lock = "main"
    /\ kbd.pc = "crit" => lock = "kbd"

\* the pose command that is exactly the neutral pose of the configuration
NeutralPose ==
    [sent |-> TRUE, neutral_pos |-> config.neutral_pos,
     neutral_eul |-> config.neutral_eul, offsets |-> ZeroOffsets]

(***************************************************************************)
(* C4.  A tick that finds playback paused submits exactly the neutral pose *)
(* (rest position and orientation, zero offsets, antennas 0) and calls no  *)
(* move function, whatever the mode, tempo, amplitude scale, index and     *)
(* beat counters are.                                                      *)
(***************************************************************************)
C4_PausedTickSendsNeutralPose ==
    (robot.target.sent /\ ~hist.tick_running) => robot.target = NeutralPose

\* a paused tick in Choreography mode, in the middle of a step, at a tempo
\* and an amplitude scale that were edited
C4_Witness ==
    /\ pc = "while"
    /\ ~hist.tick_running
    /\ robot.target = NeutralPose
    /\ loc.choreography_mode
    /\ loc.step_beat_counter > 0

\* the step a Choreography tick starts on, and its move's registered defaults
StepAt(l) == choreography[l.choreography_step_idx + 1].fields
StepDefaults(l) == registry[StepAt(l).move].params

\* a step of main that is the step logic of a running Choreography tick
IsChoreographyTick ==
    /\ pc = "running?" /\ pc' = "while"
    /\ shared.running /\ loc.choreography_mode

(***************************************************************************)
(* C5.  In Choreography mode the step logic of an unpaused tick changes    *)
(* the step index if and only if the step's accumulator plus this tick's   *)
(* beats is at least the step's target beats; the change sets the index to *)
(* (index + 1) modulo the length and the accumulator to 0; below the       *)
(* target the index is kept and the accumulator keeps the sum.             *)
(***************************************************************************)
C5_StepAdvancesExactlyAtTarget ==
    [][ IsChoreographyTick =>
          LET spb == IF "subcycles_per_beat" \in DOMAIN StepDefaults(loc)
                     THEN StepDefaults(loc).subcycles_per_beat ELSE 1000
              acc == loc.step_beat_counter + loc.dt * loc.bpm
              reached == acc * spb >= StepAt(loc).cycles * 60 * 1000
          IN  IF reached
              THEN /\ loc'.choreography_step_idx =
                         (loc.choreography_step_idx + 1) % Len(choreography)
                   /\ loc'.step_beat_counter = 0
              ELSE /\ loc'.choreography_step_idx = loc.choreography_step_idx
                   /\ loc'.step_beat_counter = acc
      ]_vars

\* with no key pressed, the first step (target 8 beats) has just been left
\* on the tick where its accumulator reached 8 beats
C5_Witness ==
    /\ pc = "while"
    /\ loc.choreography_mode
    /\ kbd.presses = 0
    /\ hist.tick_running
    /\ loc.choreography_step_idx = 1
    /\ loc.step_beat_counter = 0
    /\ loc.target_beats = 8 * 60

(***************************************************************************)
(* C6.  The target beats of a step are cycles / subcyclesPerBeat when the  *)
(* step's move defines a subcycle rate greater than 0, and cycles          *)
(* otherwise; for cycles = 4 and subcyclesPerBeat = 0.5 the target is 8.   *)
(***************************************************************************)
C6_TargetBeats ==
    [][ IsChoreographyTick =>
          LET p == StepDefaults(loc)
              cycles == StepAt(loc).cycles
          IN  /\ ("subcycles_per_beat" \in DOMAIN p
                    /\ p.subcycles_per_beat > 0) =>
                    loc'.target_beats * p.subcycles_per_beat
                        = cycles * 60 * 1000
              /\ "subcycles_per_beat" \notin DOMAIN p =>
                    loc'.target_beats = cycles * 60
              /\ ("subcycles_per_beat" \in DOMAIN p
                    /\ cycles = 4 /\ p.subcycles_per_beat = 500) =>
                    loc'.target_beats = 8 * 60
      ]_vars

\* a tick has computed the target of the step with 4 cycles of a move with
\* 0.5 subcycles per beat, after one for a move without a subcycle rate
C6_Witness ==
    /\ pc = "while"
    /\ loc.choreography_mode
    /\ loc.target_beats = 8 * 60
    /\ loc.choreography_step_idx = 0
    /\ loc.step_beat_counter > 0
    /\ robot.target.offsets.fn = "move_head_tilt_roll"

(***************************************************************************)
(* C7.  In Choreography mode the edits of a tick move the step index by    *)
(* advance to (index + 1) mod n and by retreat to (index - 1) mod n        *)
(* (n-1 wraps to 0 and 0 to n-1; a tick that drained both applies advance  *)
(* and then retreat), whatever the accumulator is, and a tick that drained *)
(* a navigation edit sets the accumulator to 0 before time is advanced.    *)
(***************************************************************************)
C7_NavigationForcesTransition ==
    [][ (pc = "ret" /\ pc' = "running?" /\ loc.choreography_mode) =>
          LET n == Len(choreography)
              i == loc.choreography_step_idx
              a == IF loc.changes.next_move
                   THEN (IF i = n - 1 THEN 0 ELSE i + 1) ELSE i
              b == IF loc.changes.prev_move
                   THEN (IF a = 0 THEN n - 1 ELSE a - 1) ELSE a
          IN  /\ loc'.choreography_step_idx = b
              /\ loc'.step_beat_counter =
                    IF loc.changes.next_move \/ loc.changes.prev_move
                    THEN 0 ELSE loc.step_beat_counter
      ]_vars

\* one retreat, drained while the first step of three was under way, has
\* put the index on the last step with the accumulator at 0
C7_Witness ==
    /\ pc = "running?"
    /\ loc.choreography_mode
    /\ Len(choreography) = 3
    /\ hist.posted = 1 /\ hist.taken = 1
    /\ robot.target.offsets.fn = "move_head_tilt_roll"
    /\ robot.target.offsets.t > 0
    /\ loc.choreography_step_idx = 2
    /\ loc.step_beat_counter = 0

(***************************************************************************)
(* C8.  Once the stop signal is set the control loop starts no further     *)
(* tick (the loop test that follows leaves the loop, also when playback is *)
(* paused), and main is left through the finally clause only after         *)
(* goto_sleep was called.                                                  *)
(***************************************************************************)
C8_NoTickAfterStop ==
    [][ /\ (stop_event /\ pc = "while") => pc' # "lock"
        /\ pc' = "done" =>
              (Len(robot'.calls) > 0 /\ Last(robot'.calls) = "goto_sleep")
      ]_vars

\* the quit key stopped a paused playback and main has returned
C8_Witness ==
    /\ pc = "done"
    /\ stop_event
    /\ loc.error = "none"
    /\ ~shared.running
    /\ ~hist.tick_running
    /\ robot.calls = <<"wake_up", "set_target", "goto_sleep">>

(***************************************************************************)
(* C9.  In every run that enters the control loop the robot receives       *)
(* wake_up exactly once and before any set_target, goto_sleep exactly once *)
(* and after the last set_target, and no set_target after goto_sleep.      *)
(***************************************************************************)
CountCalls(c) == Cardinality({i \in 1..Len(robot.calls) : robot.calls[i] = c})

C9_LifecycleCallsOnce ==
    hist.entered =>
        /\ Len(robot.calls) > 0 /\ robot.calls[1] = "wake_up"
        /\ CountCalls("wake_up") = 1
        /\ \A i \in 1..Len(robot.calls) :
              robot.calls[i] = "goto_sleep" => i = Len(robot.calls)
        /\ pc \in {"done", "raised"} <=> Last(robot.calls) = "goto_sleep"

\* Ctrl-C ended a loop that had sent poses
C9_Witness ==
    /\ hist.entered
    /\ pc = "done"
    /\ loc.error = "KeyboardInterrupt"
    /\ robot.calls = <<"wake_up", "set_target", "goto_sleep">>

(***************************************************************************)
(* C10.  Loading fails (no choreography is returned) whenever the file's   *)
(* sequence is absent or no list, whenever a step's move is no key of the  *)
(* registry, and whenever the file cannot be parsed as the expected        *)
(* format; a load succeeds only if every referenced move is registered.    *)
(* The same holds of the library's Choreography constructor.               *)
(***************************************************************************)
StepUnregistered(item) ==
    \/ ~item.is_object
    \/ "move" \notin DOMAIN item.fields
    \/ item.fields.move \notin DOMAIN AVAILABLE_MOVES

BadFile(f) ==
    \/ ~f.exists
    \/ f.text # "object"
    \/ f.seq_kind # "list"
    \/ \E i \in 1..Len(f.items) : StepUnregistered(f.items[i])

C11_FailedLoadNeverEntersLoop ==
    (config.choreography_path # "" /\ BadFile(file)) =>
        /\ pc \in {"load", "returned", "raised"}
        /\ ~hist.entered
        /\ waiter = "off" /\ kbd.pc = "off" /\ ~kbd.alive
        /\ robot.calls = <<>>
        /\ robot.target = NoCommand

\* main has returned on a file that names an unregistered move, with the
\* keyboard enabled
C11_Witness ==
    /\ pc = "returned"
    /\ ~config.disable_keyboard
    /\ file.exists /\ Len(file.items) = 1
    /\ StepUnregistered(file.items[1])
    /\ robot.calls = <<>>

(***************************************************************************)
(* C12.  Applying a drained tempo delta d to tempo b gives max(20, b + d), *)
(* and an amplitude delta d to scale a gives max(0.1, a + d): a value      *)
(* driven below its floor is the floor, and no error is raised (delta -0.2 *)
(* at scale 0.15 gives 0.1).  A delta of 0 is not applied: the value is    *)
(* kept as it is.                                                          *)
(***************************************************************************)
C12_DeltasClampAtFloor ==
    [][ (pc = "ret" /\ pc' # "ret") =>
          LET b == loc.bpm
              d == loc.changes.bpm_change
              a == loc.amplitude_scale
              e == loc.changes.amplitude_change
          IN  /\ loc'.error = "none"
              /\ (d # 0 \/ b >= 20) =>
                    loc'.bpm = IF b + d < 20 THEN 20 ELSE b + d
              /\ (e # 0 \/ a >= 10) =>
                    loc'.amplitude_scale = IF a + e < 10 THEN 10 ELSE a + e
              /\ d = 0 => loc'.bpm = b
              /\ e = 0 => loc'.amplitude_scale = a
              /\ (a = 15 /\ e = -20) => loc'.amplitude_scale = 10
      ]_vars

\* both values have been driven below their floors and stand at the floors
C12_Witness ==
    /\ pc = "running?"
    /\ config.amplitude_scale = 15 /\ loc.amplitude_scale = 10
    /\ config.bpm = 25 /\ loc.bpm = 20
    /\ loc.error = "none"

\* a step of main that is the beat logic of a running tick
IsRunningTick == pc = "running?" /\ pc' = "while" /\ shared.running

(***************************************************************************)
(* C13.  On every unpaused tick the active beat accumulator grows by       *)
(* exactly delta_seconds * (tempo / 60), for the tempo as it is after this *)
(* tick's edits and whatever the amplitude scale is (the accumulator of a  *)
(* step or of a sequence that this growth completes restarts at 0); at     *)
(* tempo 120 a delta of 1 second adds exactly 2 beats.                     *)
(***************************************************************************)
C13_BeatsGrowByDtTimesTempo ==
    [][ IsRunningTick =>
          LET delta == loc.dt * loc.bpm      \* in 1/60 of a beat
          IN  /\ ~loc.choreography_mode =>
                    /\ loc'.t_beats = loc.t_beats + delta
                    /\ loc'.sequence_beat_counter \in
                          {loc.sequence_beat_counter + delta, 0}
                    /\ (loc.bpm = 120 /\ loc.dt = 1) =>
                          loc'.t_beats = loc.t_beats + 2 * 60
              /\ loc.choreography_mode =>
                    /\ loc'.step_beat_counter \in
                          {loc.step_beat_counter + delta, 0}
                    /\ loc'.t_beats = loc.t_beats
      ]_vars

\* after one tempo key and one amplitude key, a tick of one second at the
\* edited tempo has added 125/60 beats
C13_Witness ==
    /\ pc = "while"
    /\ ~loc.choreography_mode
    /\ hist.tick_running
    /\ loc.bpm = DefaultBpm + BpmKeyStep
    /\ loc.amplitude_scale = DefaultAmplitudeScale - AmplitudeKeyStep
    /\ loc.t_beats = 125

\* the parameter overrides a step of the file carries
Overrides(item) == Without(item.fields, {"move", "cycles"})

(***************************************************************************)
(* C14.  Registry entries are immutable: after any DanceMove construction  *)
(* with overrides, any Choreography load and any tick of the control loop, *)
(* the defaults the registry holds for every move are those registered.    *)
(***************************************************************************)
C14_RegistryIsImmutable == registry = AVAILABLE_MOVES

(***************************************************************************)
(* C15.  The parameters a move function is called with, for a step that    *)
(* carries overrides, are the registered defaults of the move overlaid     *)
(* with the overrides of that step and of no other step or move instance.  *)
(***************************************************************************)
C15_DefaultsOverlaidWithOwnOverrides ==
    (/\ library.evaluated # 0
     /\ DOMAIN Overrides(file.items[library.evaluated]) # {}) =>
        library.call.params =
            Update(AVAILABLE_MOVES[library.moves[library.evaluated]].params,
                   Overrides(file.items[library.evaluated]))

(***************************************************************************)
(* C16.  Constructing a move with an override whose key is no parameter of *)
(* the move fails at construction: no move object is made, and the error   *)
(* does not wait for the first evaluation.                                 *)
(***************************************************************************)
C16_UnknownKeyFailsConstruction ==
    /\ library.status = "ok" =>
          \A i \in 1..Len(library.moves) :
              DOMAIN Overrides(file.items[i]) \subseteq
                  Signature(AVAILABLE_MOVES[library.moves[i]].fn)
    /\ library.call.status # "TypeError"

(***************************************************************************)
(* C17.  The duration of a choreography is the sum over its steps of the   *)
(* step's move duration times the step's cycle count, a move's duration    *)
(* being (60 / tempo) * defaultDurationBeats for the choreography's tempo. *)
(***************************************************************************)
RECURSIVE SumBeatsTimesCycles(_, _)
SumBeatsTimesCycles(lib, i) ==
    IF i > Len(lib.moves) THEN 0
    ELSE AVAILABLE_MOVES[lib.moves[i]].metadata.default_duration_beats
            * lib.cycles[i]
         + SumBeatsTimesCycles(lib, i + 1)

C17_DurationCountsCyclesAtTempo ==
    library.status = "ok" =>
        ChoreographyDuration(library).seconds_times_bpm * library.bpm
            = 60 * SumBeatsTimesCycles(library, 1)
                 * ChoreographyDuration(library).bpm

\* the sum of component k of field f over a list of offsets, from the right
RECURSIVE ComponentSum(_, _, _)
ComponentSum(l, f, k) ==
    IF l = <<>> THEN 0 ELSE l[1][f][k] + ComponentSum(Tail(l), f, k)

\* the orders 1..n can be put in
Orders(n) ==
    {p \in [1..n -> 1..n] : \A i, j \in 1..n : i # j => p[i] # p[j]}

ZeroOffset == MoveOffsets(<<0, 0, 0>>, <<0, 0, 0>>, <<0, 0>>)

SameValue(x, y) == x.num * y.den = y.num * x.den

\* the start of the pulse as the statement gives it: delay for a one-shot
\* spec, else the largest delay + k * R that is not after t
PulseStart(t, spec) ==
    IF spec.repeat_every = 0 THEN spec.delay_beats
    ELSE CHOOSE s \in {spec.delay_beats + k * spec.repeat_every :
                          k \in -(MaxTicks + 5)..(MaxTicks + 5)} :
            s <= t /\ t < s + spec.repeat_every

C21_UnknownWaveformRaises ==
    (motion.fn = "oscillation_motion" /\ motion.status = "returned") =>
        IF motion.params.waveform
              \in {"sin", "cos", "square", "triangle", "sawtooth"}
        THEN motion.result.status = "ok"
        ELSE motion.result = [status |-> "ValueError", value |-> 0]

\* an unsupported waveform was asked for, at a beat-time, rate and phase
\* where the sine is not zero
C21_Witness ==
    /\ motion.fn = "oscillation_motion" /\ motion.status = "returned"
    /\ motion.params.waveform = "zigzag"
    /\ motion.params.subcycles_per_beat = 2000
    /\ motion.params.phase_offset = 1
    /\ motion.t_beats = 3
    /\ motion.result.status = "ValueError"

(***************************************************************************)
(* C22.  On every unpaused Choreography tick the move evaluated is the     *)
(* move of the step the index designates at the end of the tick's step     *)
(* logic, evaluated at that step's local beat accumulator; on the tick     *)
(* that advances from step i to step i+1 the pose comes from step i+1.     *)
(***************************************************************************)
C22_PoseComesFromDesignatedStep ==
    [][ IsChoreographyTick =>
          /\ robot'.target.offsets.fn = registry[StepAt(loc').move].fn
          /\ robot'.target.offsets.t = loc'.step_beat_counter
      ]_vars

\* the move an unpaused tick evaluates: in Choreography mode the move of the
\* step the tick starts on, in Interactive mode the move under the cursor
\* after the step logic
EvaluatedMove ==
    IF loc.choreography_mode THEN StepAt(loc).move
    ELSE move_names[loc'.current_move_idx + 1]

\* step_amplitude_modifier of an unpaused tick, in hundredths
StepAmplitudeModifier ==
    IF loc.choreography_mode /\ "amplitude" \in DOMAIN StepAt(loc)
    THEN StepAt(loc).amplitude ELSE 100

\* an unpaused tick that sent a pose
IsMoveTick == pc = "running?" /\ pc' = "while" /\ shared.running

(***************************************************************************)
(* C23 as stated.  On every unpaused tick each amplitude parameter of the  *)
(* evaluated move is passed as default * amplitude scale * step modifier   *)
(* and every other parameter is passed unchanged.                          *)
(***************************************************************************)
C23_OnlyAmplitudesDiffer ==
    [][ IsMoveTick =>
          LET defaults == AVAILABLE_MOVES[EvaluatedMove].params
              passed == robot'.target.offsets.params
          IN  /\ DOMAIN passed = DOMAIN defaults
              /\ \A k \in DOMAIN defaults :
                    passed[k] =
                        IF k \in AmplitudeKeys
                        THEN defaults[k] * loc.amplitude_scale
                                         * StepAmplitudeModifier
                        ELSE defaults[k]
      ]_vars

(***************************************************************************)
(* C23, amended.  On every unpaused tick each amplitude parameter of the   *)
(* evaluated move is passed as default * amplitude scale * step modifier   *)
(* (1.0 when the step gives none and in Interactive mode), the waveform    *)
(* parameter of a move that has one is passed as the currently selected    *)
(* waveform, and every other parameter is passed unchanged; the factor is  *)
(* applied to the registered default on each tick, so it never compounds.  *)
(***************************************************************************)
C23_AmplitudesScaledWaveformSelected ==
    [][ IsMoveTick =>
          LET defaults == AVAILABLE_MOVES[EvaluatedMove].params
              passed == robot'.target.offsets.params
          IN  /\ DOMAIN passed = DOMAIN defaults
              /\ \A k \in DOMAIN defaults :
                    passed[k] =
                        IF k \in AmplitudeKeys
                        THEN defaults[k] * loc.amplitude_scale
                                         * StepAmplitudeModifier
                        ELSE IF k = "waveform"
                        THEN waveforms[loc.current_waveform_idx + 1]
                        ELSE defaults[k]
      ]_vars

\* the second tick in a row on the head_tilt_roll step (modifier 0.5) at
\* amplitude scale 1.1: 15 * 1.1 * 0.5 and 45 * 1.1 * 0.5, not compounded
C23_Witness ==
    /\ pc = "while" /\ hist.tick_running
    /\ loc.choreography_mode
    /\ loc.amplitude_scale = 110
    /\ loc.step_beat_counter = 240
    /\ robot.target.offsets.fn = "move_head_tilt_roll"
    /\ robot.target.offsets.params.amplitude_rad = 15 * 110 * 50
    /\ robot.target.offsets.params.antenna_amplitude_rad = 45 * 110 * 50
    /\ robot.target.offsets.params.subcycles_per_beat = 500

\* a step of main taken in Interactive mode
IsInteractiveStep == ~loc.choreography_mode /\ ~loc'.choreography_mode

\* the Interactive sequence counter reaches beats_per_sequence on this tick
SequenceDue ==
    loc.sequence_beat_counter + loc.dt * loc.bpm
        >= config.beats_per_sequence * 60

(***************************************************************************)
(* C24.  In Interactive mode the move cursor changes only by navigation    *)
(* (+1 or -1 modulo the number of registered moves) or by auto-advance on  *)
(* the unpaused tick where the sequence counter reaches the configured     *)
(* beats per sequence (+1 modulo the number of moves); each change resets  *)
(* the sequence counter to 0 and none resets the global beat-time, which   *)
(* never decreases and is the time at which the cursor's move is evaluated.*)
(***************************************************************************)
C24_CursorMovesByNavigationOrAdvance ==
    [][ IsInteractiveStep =>
          LET n == Len(move_names)
              idx == loc.current_move_idx
          IN  /\ loc'.t_beats >= loc.t_beats
              /\ loc'.current_move_idx # idx =>
                    /\ loc'.sequence_beat_counter = 0
                    /\ \/ /\ pc = "ret"
                          /\ loc.changes.next_move # loc.changes.prev_move
                          /\ loc'.current_move_idx =
                                IF loc.changes.next_move THEN (idx + 1) % n
                                ELSE (idx + n - 1) % n
                          /\ loc'.t_beats = loc.t_beats
                       \/ /\ IsRunningTick /\ SequenceDue
                          /\ loc'.current_move_idx = (idx + 1) % n
                          /\ loc'.t_beats = loc.t_beats + loc.dt * loc.bpm
              /\ IsRunningTick =>
                    /\ SequenceDue => /\ loc'.current_move_idx = (idx + 1) % n
                                      /\ loc'.sequence_beat_counter = 0
                    /\ robot'.target.offsets.t = loc'.t_beats
                    /\ robot'.target.offsets.fn =
                          AVAILABLE_MOVES[move_names[loc'.current_move_idx + 1]].fn
      ]_vars

\* the exceptions a tick can raise that main does not catch
RuntimeErrors == {"IndexError", "KeyError", "ZeroDivisionError"}

(***************************************************************************)
(* C25.  Once a step of a tick has raised a runtime error inside the       *)
(* control loop, the loop is abandoned: the only thing main still does is  *)
(* the shutdown path, which sets the stop signal and calls goto_sleep,     *)
(* exactly once; no pose command follows the error.                        *)
(***************************************************************************)
C25_ErrorStillShutsDown ==
    [][ loc'.error \in RuntimeErrors =>
          /\ pc' \in {"finally", "sleep", "done"}
          /\ robot'.target = robot.target
          /\ pc = "finally" /\ pc' # pc => stop_event'
          /\ IF pc = "sleep" /\ pc' = "done"
             THEN /\ stop_event'
                  /\ robot'.calls = Append(robot.calls, "goto_sleep")
                  /\ Cardinality({i \in 1..Len(robot'.calls) :
                                     robot'.calls[i] = "goto_sleep"}) = 1
             ELSE robot'.calls = robot.calls
      ]_vars

\* a step without "cycles": the first unpaused tick, after a paused one had
\* sent the neutral pose, raised KeyError, and main has shut the robot down
C25_Witness ==
    /\ pc = "done"
    /\ loc.error = "KeyError"
    /\ stop_event
    /\ robot.calls = <<"wake_up", "set_target", "goto_sleep">>

\* on_press is called (a key event is handled) with the stop signal set
IsPressAfterStop ==
    stop_event /\ kbd.pc = "idle" /\ kbd'.presses # kbd.presses

C27_StepIndexAlwaysValid ==
    (loc.choreography_mode /\ pc \notin {"load", "spawn"}) =>
        /\ loc.choreography_step_idx \in 0..(Len(choreography) - 1)
        /\ loc.error \notin RuntimeErrors

\* the tick of a paused playback: the neutral pose, the sleep and `continue`
IsPausedTick == pc = "running?" /\ pc' = "while" /\ ~shared.running

\* the three beat accumulators of main
Accumulators(l) ==
    <<l.step_beat_counter, l.sequence_beat_counter, l.t_beats>>

(***************************************************************************)
(* C28.  A tick executed while paused leaves the step accumulator, the     *)
(* Interactive sequence counter and the global beat-time unchanged, unless *)
(* a navigation edit of that tick resets the accumulator of its mode to 0; *)
(* paused wall-clock time is never converted into beats: every tick, also  *)
(* a paused one, restarts the delta, so the first unpaused tick after a    *)
(* pause of any length measures only the time since the previous tick.     *)
(***************************************************************************)
C28_PausedTimeIsNotCounted ==
    [][ /\ IsPausedTick => Accumulators(loc') = Accumulators(loc)
        /\ (pc = "while" /\ pc' = "lock") =>
              /\ loc'.dt = hist.since_tick
              /\ Accumulators(loc') = Accumulators(loc)
        /\ (pc \in {"lock", "read", "read_deltas", "reset"} /\ pc' # "finally")
              => Accumulators(loc') = Accumulators(loc)
        /\ (pc = "ret" /\ pc' = "running?") =>
              LET nav == loc.changes.next_move \/ loc.changes.prev_move
              IN  /\ loc'.t_beats = loc.t_beats
                  /\ loc'.step_beat_counter =
                        IF nav /\ loc.choreography_mode THEN 0
                        ELSE loc.step_beat_counter
                  /\ loc'.sequence_beat_counter =
                        IF nav /\ ~loc.choreography_mode THEN 0
                        ELSE loc.sequence_beat_counter
        /\ (IsRunningTick /\ ~hist.tick_running) =>
              LET delta == hist.since_tick * loc.bpm
              IN  IF loc.choreography_mode
                  THEN loc'.step_beat_counter
                          \in {loc.step_beat_counter + delta, 0}
                  ELSE loc'.t_beats = loc.t_beats + delta
      ]_vars

\* Interactive mode: one unpaused tick, two paused ticks or more, then an
\* unpaused tick; the beat-time holds the beats of the two unpaused ticks only
C28_Witness ==
    /\ pc = "while"
    /\ ~loc.choreography_mode
    /\ hist.tick_running
    /\ hist.paused_before = 2
    /\ loc.bpm = 120
    /\ loc.t_beats = 2 * 2 * 60

(***************************************************************************)
(* C29.  Tempo and amplitude deltas are conserved across the mailbox: just *)
(* after a drain the sum of the tempo deltas the drains have handed to the *)
(* control loop equals the sum of the amounts adjust_bpm has posted, and   *)
(* likewise for adjust_amplitude; at any other point the difference is     *)
(* what the mailbox holds.  This is so under every interleaving.           *)
(***************************************************************************)
C29_DeltasAreConserved ==
    \A f \in DeltaFields :
        /\ hist.sum_posted[f] = hist.sum_handed[f] + shared[f]
        /\ pc = "ret" =>
              /\ shared[f] = 0
              /\ hist.sum_posted[f] = hist.sum_handed[f]

\* the second drain that handed over a tempo delta has just returned; both
\* "up" keys were handed over, one by each drain
C29_Witness ==
    /\ pc = "ret"
    /\ loc.changes.bpm_change = BpmKeyStep
    /\ hist.sum_posted.bpm_change = 2 * BpmKeyStep
    /\ hist.sum_handed.bpm_change = 2 * BpmKeyStep
    /\ loc.bpm = DefaultBpm + BpmKeyStep

(***************************************************************************)
(* C30.  If the control loop starts with tempo >= 20 and amplitude scale   *)
(* >= 0.1, both bounds hold in every reachable state, for every sequence   *)
(* of positive and negative tempo and amplitude edits.  The starting       *)
(* values are the values of the configuration, not clamped, and the tempo  *)
(* (the amplitude scale) changes only on a tick whose drained tempo        *)
(* (amplitude) delta is not 0.                                             *)
(***************************************************************************)
C30_FloorsArePreserved ==
    [][ /\ (config.bpm >= MinBpm
              /\ config.amplitude_scale >= MinAmplitudeScale) =>
                 (loc'.bpm >= MinBpm
                    /\ loc'.amplitude_scale >= MinAmplitudeScale)
        /\ pc = "spawn" =>
              /\ loc'.bpm = config.bpm
              /\ loc'.amplitude_scale = config.amplitude_scale
        /\ loc'.bpm # loc.bpm =>
              (pc = "ret" /\ loc.changes.bpm_change # 0)
        /\ loc'.amplitude_scale # loc.amplitude_scale =>
              (pc = "ret" /\ loc.changes.amplitude_change # 0)
      ]_vars

\* started at 25 bpm, two "down" keys have been handed over (25 - 10 is
\* below the floor) and the tempo stands at the floor after an unpaused tick
C30_Witness ==
    /\ pc = "while" /\ hist.tick_running
    /\ config.bpm = 25 /\ config.amplitude_scale = 20
    /\ hist.sum_handed.bpm_change = 0 - 2 * BpmKeyStep
    /\ loc.bpm = MinBpm
    /\ loc.amplitude_scale = 20

====
